---- MODULE Spec2Model ----
(***************************************************************************)
(* Crown-boundary ingestion pipeline of canopy.app                         *)
(* (src/lib/utils/shapefileLoader.ts): the asynchronous load               *)
(* (loadCrownShapefile / loadGeometryOnly), the Sutherland-Hodgman         *)
(* rectangle clipper (clipPolygonToBounds / clipEdge) and the projector    *)
(* (projectToPixels), with the part of the viewer                          *)
(* (src/lib/CanopyViewer.svelte) that starts the load, keeps its result    *)
(* and projects it.                                                        *)
(*                                                                         *)
(* Numbers.  A JavaScript number is a binary floating-point value; every   *)
(* arithmetic operation returns the representable value nearest to the     *)
(* exact result (ties to even).  The model keeps that behaviour at a       *)
(* reduced width: a value is an integer count of units of 2^-FracBits and  *)
(* is representable when it has at most Precision significant bits.        *)
(***************************************************************************)
EXTENDS Integers, Sequences, FiniteSets, TLC

VARIABLES
    polygon,    \* clipPolygonToBounds: the ring passed in
    bounds,     \* clipPolygonToBounds: the Bounds passed in
    output,     \* clipPolygonToBounds: the local `output`
    clipPc,     \* clipPolygonToBounds: the pass about to run, or "done"
    shpFile,    \* the geometry resource: what decoding it gives
    dbfFile,    \* the attribute resource: what decoding it gives
    shpFetch,   \* fetch(shpPath): "none", "pending", "ok", "notOk", "rejected"
    dbfFetch,   \* fetch(dbfPath): likewise
    shpBuf,     \* shpResponse.arrayBuffer(): "none", "pending", "ok", "rejected"
    dbfBuf,     \* dbfResponse.arrayBuffer(): likewise
    pc,         \* loadCrownShapefile: where the async function is suspended
    outcome,    \* the promise loadCrownShapefile returned
    result,     \* the value that promise resolved with
    reads,      \* the calls of shapefile.read made so far
    imageBounds,    \* viewer: metadata.web_app_config.image_bounds
    imageWidth,     \* viewer: imageWidth
    imageHeight,    \* viewer: imageHeight
    mainImageLoaded, \* viewer: mainImageLoaded
    crownPolygons,  \* viewer: crownPolygons
    viewPc,         \* loadCrownData: where the async function is suspended
    projCoordinates, \* projectToPixels: the `coordinates` passed in
    pixels,         \* projectToPixels: the value returned
    projPc,         \* projectToPixels: "call" before it ran, "done" after
    shapefilePath,  \* loadCrownShapefile: the path passed in
    fetched         \* the URLs handed to fetch, in call order

clipVars == <<polygon, bounds, output, clipPc>>
fileVars == <<shpFile, dbfFile>>
loadVars == <<shpFetch, dbfFetch, shpBuf, dbfBuf, pc, outcome, result, reads>>
imageVars == <<imageBounds, imageWidth, imageHeight, mainImageLoaded>>
viewVars == <<imageVars, crownPolygons, viewPc>>
projVars == <<projCoordinates, pixels, projPc>>
pathVars == <<shapefilePath, fetched>>
vars == <<clipVars, fileVars, loadVars, viewVars, projVars, pathVars>>

\* ------------------------------------------------------------------------
\* Bounds of the model
\* ------------------------------------------------------------------------
Precision == 3      \* significant bits of a number (binary64 has 53)
FracBits == 4       \* the smallest spacing of the format is 2^-FracBits
MaxRingLen == 4     \* longest input ring the clipper is applied to
MaxFeatures == 2    \* most records in a geometry or attribute file

RECURSIVE Pow2(_)
Pow2(n) == IF n = 0 THEN 1 ELSE 2 * Pow2(n - 1)

Unit == Pow2(FracBits)          \* the number 1.0 in units
Num(k) == k * Unit              \* the integer literal k as a number

Abs(n) == IF n < 0 THEN -n ELSE n

\* ------------------------------------------------------------------------
\* Floating-point arithmetic (round to nearest, ties to even)
\* ------------------------------------------------------------------------

\* The spacing of representable values at magnitude a/den (a >= 0, den > 0):
\* the least power of two s with a/den < 2^Precision * s.
RECURSIVE SpacingFrom(_, _, _)
SpacingFrom(a, den, s) ==
    IF a < den * Pow2(Precision) * s THEN s ELSE SpacingFrom(a, den, 2 * s)

Spacing(a, den) == SpacingFrom(a, den, 1)

\* The representable value nearest to the exact quotient num/den (den > 0).
Round(num, den) ==
    LET a    == Abs(num)
        s    == Spacing(a, den)
        q    == a \div (den * s)
        rem  == a - q * den * s
        up   == \/ 2 * rem > den * s
                \/ 2 * rem = den * s /\ q % 2 = 1
        m    == IF up THEN q + 1 ELSE q
    IN  IF num < 0 THEN -(m * s) ELSE m * s

FAdd(a, b) == Round(a + b, 1)
FSub(a, b) == Round(a - b, 1)
FMul(a, b) == Round(a * b, Unit)
FDiv(a, b) == IF b < 0 THEN Round(-(a * Unit), -b) ELSE Round(a * Unit, b)

\* ------------------------------------------------------------------------
\* clipPolygonToBounds / clipEdge
\* ------------------------------------------------------------------------
Sides == <<"left", "right", "bottom", "top">>

\* The `inside` predicates with strict comparisons.
InsideOpen(side, b, pt) ==
    CASE side = "left"   -> pt[1] > b.minX
      [] side = "right"  -> pt[1] < b.maxX
      [] side = "bottom" -> pt[2] > b.minY
      [] side = "top"    -> pt[2] < b.maxY

\* The `inside` predicate passed to clipEdge for each side.
Inside(side, b, pt) ==
    CASE side = "left"   -> pt[1] >= b.minX
      [] side = "right"  -> pt[1] <= b.maxX
      [] side = "bottom" -> pt[2] >= b.minY
      [] side = "top"    -> pt[2] <= b.maxY

\* The intersection with a vertical boundary interpolating from y2.
IntersectXFromEnd(bx, p, q) ==
    LET t == FDiv(FSub(bx, p[1]), FSub(q[1], p[1]))
    IN  <<bx, FAdd(q[2], FMul(t, FSub(q[2], p[2])))>>

\* The `intersect` function passed to clipEdge for each side.
IntersectX(bx, p, q) ==
    LET t == FDiv(FSub(bx, p[1]), FSub(q[1], p[1]))
    IN  <<bx, FAdd(p[2], FMul(t, FSub(q[2], p[2])))>>

IntersectY(by, p, q) ==
    LET t == FDiv(FSub(by, p[2]), FSub(q[2], p[2]))
    IN  <<FAdd(p[1], FMul(t, FSub(q[1], p[1]))), by>>

Intersect(side, b, p, q) ==
    CASE side = "left"   -> IntersectX(b.minX, p, q)
      [] side = "right"  -> IntersectX(b.maxX, p, q)
      [] side = "bottom" -> IntersectY(b.minY, p, q)
      [] side = "top"    -> IntersectY(b.maxY, p, q)

\* clipEdge with `output.push(curr)` outside the `if (currInside)`.
RECURSIVE clipLoopKeepsOutside(_, _, _, _, _, _)
clipLoopKeepsOutside(ring, i, prev, out, side, b) ==
    IF i > Len(ring) THEN out
    ELSE LET curr       == ring[i]
             prevInside == Inside(side, b, prev)
             currInside == Inside(side, b, curr)
             crossing   == Intersect(side, b, prev, curr)
             out2 == IF currInside # prevInside THEN Append(out, crossing)
                                                ELSE out
         IN  clipLoopKeepsOutside(ring, i + 1, curr, Append(out2, curr), side, b)

clipEdgeKeepsOutside(ring, side, b) ==
    IF Len(ring) = 0 THEN <<>>
    ELSE clipLoopKeepsOutside(ring, 1, ring[Len(ring)], <<>>, side, b)

\* The loop without `output.push(curr)` where the ring enters the half-plane.
RECURSIVE clipLoopDropsEntering(_, _, _, _, _, _)
clipLoopDropsEntering(ring, i, prev, out, side, b) ==
    IF i > Len(ring) THEN out
    ELSE LET curr       == ring[i]
             prevInside == Inside(side, b, prev)
             currInside == Inside(side, b, curr)
             crossing   == Intersect(side, b, prev, curr)
             out2 == IF currInside
                       THEN (IF ~prevInside THEN Append(out, crossing)
                                            ELSE Append(out, curr))
                       ELSE IF prevInside THEN Append(out, crossing)
                                          ELSE out
         IN  clipLoopDropsEntering(ring, i + 1, curr, out2, side, b)

\* The loop of clipEdge: i is the index of curr, prev the previous vertex.
RECURSIVE clipLoop(_, _, _, _, _, _)
clipLoop(ring, i, prev, out, side, b) ==
    IF i > Len(ring) THEN out
    ELSE LET curr       == ring[i]
             prevInside == Inside(side, b, prev)
             currInside == Inside(side, b, curr)
             crossing   == Intersect(side, b, prev, curr)
             out2 == IF currInside
                       THEN (IF ~prevInside THEN Append(out, crossing)
                                            ELSE out) \o <<curr>>
                       ELSE IF prevInside THEN Append(out, crossing)
                                          ELSE out
         IN  clipLoop(ring, i + 1, curr, out2, side, b)

clipEdge(ring, side, b) ==
    IF Len(ring) = 0 THEN <<>>
    ELSE clipLoop(ring, 1, ring[Len(ring)], <<>>, side, b)

\* The four passes of clipPolygonToBounds, in the order of Sides, each on the
\* output of the one before.
RECURSIVE clipPasses(_, _, _)
clipPasses(ring, k, b) ==
    IF k > Len(Sides) THEN ring
    ELSE clipPasses(clipEdge(ring, Sides[k], b), k + 1, b)

clipPolygonToBounds(ring, b) == clipPasses(ring, 1, b)

\* ------------------------------------------------------------------------
\* projectToPixels
\* ------------------------------------------------------------------------
\* imageBounds is [[minLat, minLon], [maxLat, maxLon]], a point is [lon, lat].

\* The mapping of one point with the vertical axis not flipped.
projectPointNoFlip(pt, ib, w, h) ==
    LET minLat == ib[1][1]
        minLon == ib[1][2]
        maxLat == ib[2][1]
        maxLon == ib[2][2]
    IN  << FMul(FDiv(FSub(pt[1], minLon), FSub(maxLon, minLon)), w),
           FMul(FDiv(FSub(pt[2], minLat), FSub(maxLat, minLat)), h) >>

\* ([x, y]) => [((x - minLon) / (maxLon - minLon)) * imageWidth,
\*              ((maxLat - y) / (maxLat - minLat)) * imageHeight]
projectPoint(pt, ib, w, h) ==
    LET minLat == ib[1][1]
        minLon == ib[1][2]
        maxLat == ib[2][1]
        maxLon == ib[2][2]
    IN  << FMul(FDiv(FSub(pt[1], minLon), FSub(maxLon, minLon)), w),
           FMul(FDiv(FSub(maxLat, pt[2]), FSub(maxLat, minLat)), h) >>

\* coordinates.map(ring => ring.map(...))
projectToPixels(coords, ib, w, h) ==
    [r \in 1..Len(coords) |->
        [i \in 1..Len(coords[r]) |-> projectPoint(coords[r][i], ib, w, h)]]

\* ------------------------------------------------------------------------
\* The attribute-file path: shapefilePath.replace('.shp', '.dbf')
\* ------------------------------------------------------------------------
\* A string is the sequence of its characters.
ShpExt == <<".", "s", "h", "p">>
DbfExt == <<".", "d", "b", "f">>

occursAt(str, pat, i) ==
    /\ i + Len(pat) - 1 <= Len(str)
    /\ SubSeq(str, i, i + Len(pat) - 1) = pat

\* str.indexOf(pat), counted from 1; 0 when pat does not occur.
indexOf(str, pat) ==
    IF \E i \in 1..Len(str) : occursAt(str, pat, i)
      THEN CHOOSE i \in 1..Len(str) :
              /\ occursAt(str, pat, i)
              /\ \A j \in 1..(i - 1) : ~occursAt(str, pat, j)
      ELSE 0

\* String.prototype.replace with a string pattern: the first occurrence of
\* pat is replaced, a string without one is returned as it is.
replace(str, pat, by) ==
    LET i == indexOf(str, pat)
    IN  IF i = 0 THEN str
        ELSE SubSeq(str, 1, i - 1) \o by \o SubSeq(str, i + Len(pat), Len(str))

\* ------------------------------------------------------------------------
\* The viewer (CanopyViewer.svelte): loadCrownData and the outline paths
\* ------------------------------------------------------------------------
\* The Bounds with image_bounds read without swapping latitude and longitude.
loadCrownDataBoundsUnswapped(ib) ==
    [minX |-> ib[1][1], minY |-> ib[1][2], maxX |-> ib[2][1], maxY |-> ib[2][2]]

\* const bounds = { minX: image_bounds[0][1], minY: image_bounds[0][0],
\*                  maxX: image_bounds[1][1], maxY: image_bounds[1][0] }
loadCrownDataBounds(ib) ==
    [minX |-> ib[1][2], minY |-> ib[1][1], maxX |-> ib[2][2], maxY |-> ib[2][1]]

\* The assignment keeping the returned array without its last element.
loadCrownDataAssignTruncated(settled, value, previous) ==
    IF settled = "resolved" /\ Len(value) > 0
      THEN SubSeq(value, 1, Len(value) - 1)
      ELSE previous

\* crownPolygons = await loadCrownShapefile(...) inside try/catch: a
\* resolved load is assigned, a rejected one is logged and changes nothing.
loadCrownDataAssign(settled, value, previous) ==
    IF settled = "resolved" THEN value ELSE previous

\* The outline paths of the template: projectToPixels of the coordinates of
\* each polygon, with the image bounds and the current image size.
crownPaths(polygons, ib, w, h) ==
    [k \in 1..Len(polygons) |->
        projectToPixels(polygons[k].coordinates, ib, w, h)]

\* ------------------------------------------------------------------------
\* shapefile.read (the decoder library), as the loader sees it
\* ------------------------------------------------------------------------
\* A resource is [ok, records]: ok is whether its bytes can be parsed, and
\* records what parsing them gives.  A geometry record is
\* [present, type, coordinates] (present = FALSE is a null shape); an
\* attribute record is [present, fields], fields a set of <<key, value>>.
NoProperties == [present |-> FALSE, fields |-> {}]
EmptyProperties == [present |-> TRUE, fields |-> {}]

\* shapefile.read(shp, dbf) and shapefile.read(shp) resolve when every buffer
\* handed over can be parsed, and reject otherwise.
readResolves(shp, withDbf, dbf) == shp.ok /\ (withDbf => dbf.ok)

\* collection.features: one feature per geometry record, paired by position
\* with the attribute record; without a dbf every feature has properties {}.
readFeatures(shp, withDbf, dbf) ==
    [i \in 1..Len(shp.records) |->
        [geometry   |-> shp.records[i],
         properties |-> IF ~withDbf THEN EmptyProperties
                        ELSE IF i <= Len(dbf.records) THEN dbf.records[i]
                        ELSE NoProperties]]

\* ------------------------------------------------------------------------
\* The forEach bodies of loadCrownShapefile and loadGeometryOnly
\* ------------------------------------------------------------------------
\* feature.geometry && feature.geometry.type === 'Polygon'
isPolygonFeature(feature) ==
    feature.geometry.present /\ feature.geometry.type = "Polygon"

\* The filter with `ring.length > 1`.
validRingLoose(ring) == Len(ring) > 1

\* .filter(ring => ring.length > 2)
validRing(ring) == Len(ring) > 2

\* coordinates.map(ring => clipPolygonToBounds(ring, bounds)).filter(...)
croppedCoords(coordinates, b) ==
    SelectSeq([i \in 1..Len(coordinates) |->
                  clipPolygonToBounds(coordinates[i], b)],
              validRing)

\* feature.properties || {}
propertiesOrEmpty(props) == IF props.present THEN props.fields ELSE {}

\* The iteration with crowns.unshift in place of crowns.push.
pushCrownUnshift(crowns, feature, b) ==
    IF isPolygonFeature(feature)
      THEN LET cropped == croppedCoords(feature.geometry.coordinates, b)
           IN  IF Len(cropped) > 0
                 THEN <<[type        |-> "Polygon",
                         coordinates |-> cropped,
                         properties  |-> propertiesOrEmpty(feature.properties)]>>
                      \o crowns
                 ELSE crowns
      ELSE crowns

\* One iteration of the forEach of loadCrownShapefile.
pushCrown(crowns, feature, b) ==
    IF isPolygonFeature(feature)
      THEN LET cropped == croppedCoords(feature.geometry.coordinates, b)
           IN  IF Len(cropped) > 0
                 THEN Append(crowns,
                        [type        |-> "Polygon",
                         coordinates |-> cropped,
                         properties  |-> propertiesOrEmpty(feature.properties)])
                 ELSE crowns
      ELSE crowns

\* One iteration of the forEach of loadGeometryOnly.
pushCrownGeometryOnly(crowns, feature, b) ==
    IF isPolygonFeature(feature)
      THEN LET cropped == croppedCoords(feature.geometry.coordinates, b)
           IN  IF Len(cropped) > 0
                 THEN Append(crowns,
                        [type        |-> "Polygon",
                         coordinates |-> cropped,
                         properties  |-> {}])
                 ELSE crowns
      ELSE crowns

\* The loop leaving at the first feature that is not a polygon.
RECURSIVE forEachFeatureStopsAtOther(_, _, _, _)
forEachFeatureStopsAtOther(features, i, crowns, b) ==
    IF i > Len(features) \/ ~isPolygonFeature(features[i]) THEN crowns
    ELSE forEachFeatureStopsAtOther(features, i + 1,
             pushCrown(crowns, features[i], b), b)

RECURSIVE forEachFeature(_, _, _, _)
forEachFeature(features, i, crowns, b) ==
    IF i > Len(features) THEN crowns
    ELSE forEachFeature(features, i + 1, pushCrown(crowns, features[i], b), b)

RECURSIVE forEachFeatureGeometryOnly(_, _, _, _)
forEachFeatureGeometryOnly(features, i, crowns, b) ==
    IF i > Len(features) THEN crowns
    ELSE forEachFeatureGeometryOnly(features, i + 1,
             pushCrownGeometryOnly(crowns, features[i], b), b)

\* The crowns array once the .then callback has run.
crownsWithAttributes(shp, dbf, b) ==
    forEachFeature(readFeatures(shp, TRUE, dbf), 1, <<>>, b)

crownsGeometryOnly(shp, b) ==
    forEachFeatureGeometryOnly(readFeatures(shp, FALSE, shp), 1, <<>>, b)

\* ------------------------------------------------------------------------
\* The clipper on its own: one ring, one Bounds, the four passes in turn
\* ------------------------------------------------------------------------
Pt(x, y) == <<Num(x), Num(y)>>

MkBounds(x0, y0, x1, y1) ==
    [minX |-> Num(x0), minY |-> Num(y0), maxX |-> Num(x1), maxY |-> Num(y1)]

\* Vertices the input rings are drawn from: some inside the window, some on
\* its edges and corners, some beyond each of its sides.
ClipPoints ==
    { Pt(1, 4), Pt(-7, 1), Pt(1, -7), Pt(-1, 1), Pt(-7, -7),
      Pt(4, 0), Pt(1, 1), Pt(0, 2), Pt(4, 2) }

RingsUpTo(n) == UNION { [1..k -> ClipPoints] : k \in 0..n }

ClipBoundsSet == { MkBounds(0, 0, 4, 2), MkBounds(-7, 0, 4, 2) }

\* The two rings of the specification's clipping scenarios.
ScenarioBounds == MkBounds(0, 0, 5, 5)
ContainedSquare == <<Pt(1, 1), Pt(1, 2), Pt(2, 2), Pt(2, 1)>>
OverlappingSquare == <<Pt(-1, -1), Pt(-1, 1), Pt(1, 1), Pt(1, -1)>>

\* Outside a load nothing of the loader is in flight.
LoadIdle ==
    /\ shpFetch = "none" /\ dbfFetch = "none"
    /\ shpBuf = "none" /\ dbfBuf = "none"
    /\ pc = "idle" /\ outcome = "none" /\ result = <<>> /\ reads = <<>>

\* The viewer before loadCrownData ran and before the image has loaded.
ViewIdle ==
    /\ imageWidth = 0 /\ imageHeight = 0 /\ mainImageLoaded = FALSE
    /\ crownPolygons = <<>> /\ viewPc = "mounted"

ProjectIdle == projCoordinates = <<>> /\ pixels = <<>> /\ projPc = "idle"

ScenarioImageBounds == << <<Num(0), Num(0)>>, <<Num(5), Num(5)>> >>

NoResource == [ok |-> FALSE, records |-> <<>>]

\* A ring with an edge from outside to the corner (maxX, minY) of the second
\* window of ClipBoundsSet, and a vertex beyond that corner.
CoincidingRing == <<Pt(-7, -7), Pt(4, 0), Pt(5, 0)>>

ClipInit ==
    /\ shpFile = NoResource
    /\ dbfFile = NoResource
    /\ LoadIdle
    /\ imageBounds = ScenarioImageBounds /\ ViewIdle
    /\ ProjectIdle
    /\ shapefilePath = <<>> /\ fetched = <<>>
    /\ \/ polygon \in RingsUpTo(MaxRingLen) /\ bounds \in ClipBoundsSet
       \/ polygon \in {ContainedSquare, OverlappingSquare}
          /\ bounds = ScenarioBounds
       \/ polygon = CoincidingRing /\ bounds = MkBounds(-7, 0, 4, 2)
    /\ output = polygon
    /\ clipPc = "left"

ClipPass(side, next) ==
    /\ clipPc = side
    /\ output' = clipEdge(output, side, bounds)
    /\ clipPc' = next
    /\ UNCHANGED <<polygon, bounds, fileVars, loadVars, viewVars, projVars,
                   pathVars>>

ClipLeft   == ClipPass("left", "right")
ClipRight  == ClipPass("right", "bottom")
ClipBottom == ClipPass("bottom", "top")
ClipTop    == ClipPass("top", "done")

ClipNext == ClipLeft \/ ClipRight \/ ClipBottom \/ ClipTop

SpecClip == ClipInit /\ [][ClipNext]_vars

ClipDone == clipPc = "done"

\* ------------------------------------------------------------------------
\* The load: loadCrownShapefile, with the fetches, the buffer reads and the
\* decoder as the environment
\* ------------------------------------------------------------------------
OutsideTriangle == <<Pt(-3, 1), Pt(-1, 1), Pt(-1, 3)>>
TwoPointRing == <<Pt(1, 1), Pt(2, 2)>>

Polygon(rings) == [present |-> TRUE, type |-> "Polygon", coordinates |-> rings]
OtherShape(type) == [present |-> TRUE, type |-> type, coordinates |-> <<>>]
NullShape == [present |-> FALSE, type |-> "null", coordinates |-> <<>>]

\* A ring with an edge that ends on the corner (maxX, minY) of the wide
\* window below: the bottom pass computes that edge's crossing.
CornerRing == <<Pt(-4, -1), Pt(7, 0), Pt(7, 2)>>

\* Geometry records: a polygon inside the window, one whose rings partly
\* survive, one that clips away, one through a corner of the wide window,
\* and shapes that are not polygons.
GeometryRecords ==
    { Polygon(<<ContainedSquare>>),
      Polygon(<<OutsideTriangle, OverlappingSquare, TwoPointRing,
                ContainedSquare>>),
      Polygon(<<OutsideTriangle, TwoPointRing>>),
      Polygon(<<CornerRing>>),
      OtherShape("Point"),
      OtherShape("MultiPolygon"),
      NullShape }

AttributeRecords ==
    { [present |-> TRUE, fields |-> {<<"species", "oak">>}],
      [present |-> TRUE, fields |-> {<<"species", "lime">>}] }

RecordsUpTo(S, n) == UNION { [1..k -> S] : k \in 0..n }

\* A resource whose bytes cannot be parsed, or one with up to MaxFeatures
\* records.
Resources(S) ==
    { NoResource }
      \cup { [ok |-> TRUE, records |-> r] : r \in RecordsUpTo(S, MaxFeatures) }

\* image_bounds of the metadata: the square of the scenarios, and a wide
\* window whose latitude and longitude ranges differ.
WideImageBounds == << <<Num(0), Num(-6)>>, <<Num(2), Num(7)>> >>
ImageBoundsSet == { ScenarioImageBounds, WideImageBounds }

\* naturalWidth and naturalHeight of the background image.
ImageSizes == { <<Num(16), Num(8)>> }

CrownsPath == <<"/", "c">> \o ShpExt

NoBounds == MkBounds(0, 0, 0, 0)

Init ==
    /\ shpFile \in Resources(GeometryRecords)
    /\ dbfFile \in Resources(AttributeRecords)
    /\ imageBounds \in ImageBoundsSet
    /\ ViewIdle
    /\ bounds = NoBounds
    /\ polygon = <<>> /\ output = <<>> /\ clipPc = "idle"
    /\ LoadIdle
    /\ ProjectIdle
    /\ shapefilePath = CrownsPath /\ fetched = <<>>

\* The catch block: log and return [].
CaughtReturnsEmpty ==
    /\ pc' = "done"
    /\ outcome' = "resolved"
    /\ result' = <<>>

\* loadCrownData builds the Bounds from image_bounds and calls
\* loadCrownShapefile(shapefilePath, bounds): the attribute path is derived,
\* both fetches are issued and the function suspends on Promise.all of
\* them; loadCrownData suspends on the promise returned.
LoadCall ==
    /\ pc = "idle" /\ viewPc = "mounted"
    /\ bounds' = loadCrownDataBounds(imageBounds)
    /\ fetched' = <<shapefilePath, replace(shapefilePath, ShpExt, DbfExt)>>
    /\ shpFetch' = "pending"
    /\ dbfFetch' = "pending"
    /\ pc' = "awaitFetches"
    /\ outcome' = "pending"
    /\ viewPc' = "awaitLoad"
    /\ UNCHANGED <<polygon, output, clipPc, fileVars, imageVars, crownPolygons,
                   projVars, shapefilePath, shpBuf, dbfBuf, result, reads>>

ShpFetchSettle ==
    /\ shpFetch = "pending"
    /\ \E r \in {"ok", "notOk", "rejected"} : shpFetch' = r
    /\ UNCHANGED <<clipVars, fileVars, viewVars, projVars, pathVars,
                   dbfFetch, shpBuf, dbfBuf, pc, outcome,
                   result, reads>>

DbfFetchSettle ==
    /\ dbfFetch = "pending"
    /\ \E r \in {"ok", "notOk", "rejected"} : dbfFetch' = r
    /\ UNCHANGED <<clipVars, fileVars, viewVars, projVars, pathVars,
                   shpFetch, shpBuf, dbfBuf, pc, outcome,
                   result, reads>>

\* A combinator settling as soon as one of its inputs has settled.
AllSettledFirst(a, b) ==
    \/ a \notin {"none", "pending"}
    \/ b \notin {"none", "pending"}

\* A combinator that never settles when an input rejects.
AllSettledNoReject(a, b) ==
    /\ a \notin {"none", "pending", "rejected"}
    /\ b \notin {"none", "pending", "rejected"}

\* Promise.all settles: rejected as soon as one input is, fulfilled once
\* every input is.
AllSettled(a, b) ==
    \/ a = "rejected"
    \/ b = "rejected"
    \/ a \notin {"none", "pending"} /\ b \notin {"none", "pending"}

\* What the function does once Promise.all of the fetches has settled: the
\* rejection is thrown into the catch; without one, `!shpResponse.ok` throws
\* and `!dbfResponse.ok` falls back to loadGeometryOnly.
afterFetchesBranchNoShpCheck(shp, dbf) ==
    IF shp = "rejected" \/ dbf = "rejected" THEN "catch"
    ELSE IF dbf # "ok" THEN "geometryOnly"
    ELSE "withAttributes"

afterFetchesBranchNoFallback(shp, dbf) ==
    IF shp = "rejected" \/ dbf = "rejected" THEN "catch"
    ELSE IF shp # "ok" THEN "catch"
    ELSE IF dbf # "ok" THEN "catch"
    ELSE "withAttributes"

afterFetchesBranch(shp, dbf) ==
    IF shp = "rejected" \/ dbf = "rejected" THEN "catch"
    ELSE IF shp # "ok" THEN "catch"
    ELSE IF dbf # "ok" THEN "geometryOnly"
    ELSE "withAttributes"

\* The function resumes after `await Promise.all([fetch, fetch])`.
AfterFetches ==
    /\ pc = "awaitFetches"
    /\ AllSettled(shpFetch, dbfFetch)
    /\ LET branch == afterFetchesBranch(shpFetch, dbfFetch)
       IN  CASE branch = "catch" ->
                  CaughtReturnsEmpty /\ UNCHANGED <<shpBuf, dbfBuf>>
             [] branch = "geometryOnly" ->
                  /\ shpBuf' = "pending"
                  /\ pc' = "awaitShpBuffer"
                  /\ UNCHANGED <<dbfBuf, outcome, result>>
             [] branch = "withAttributes" ->
                  /\ shpBuf' = "pending"
                  /\ dbfBuf' = "pending"
                  /\ pc' = "awaitBuffers"
                  /\ UNCHANGED <<outcome, result>>
    /\ UNCHANGED <<clipVars, fileVars, viewVars, projVars, pathVars,
                   shpFetch, dbfFetch, reads>>

ShpBufSettle ==
    /\ shpBuf = "pending"
    /\ \E r \in {"ok", "rejected"} : shpBuf' = r
    /\ UNCHANGED <<clipVars, fileVars, viewVars, projVars, pathVars,
                   shpFetch, dbfFetch, dbfBuf, pc, outcome,
                   result, reads>>

DbfBufSettle ==
    /\ dbfBuf = "pending"
    /\ \E r \in {"ok", "rejected"} : dbfBuf' = r
    /\ UNCHANGED <<clipVars, fileVars, viewVars, projVars, pathVars,
                   shpFetch, dbfFetch, shpBuf, pc, outcome,
                   result, reads>>

\* The function resumes after `await shpResponse.arrayBuffer()` of the
\* fallback and calls loadGeometryOnly, which calls shapefile.read(shpBuffer).
AfterShpBuffer ==
    /\ pc = "awaitShpBuffer"
    /\ shpBuf \in {"ok", "rejected"}
    /\ IF shpBuf = "rejected"
         THEN CaughtReturnsEmpty /\ UNCHANGED reads
         ELSE /\ reads' = Append(reads, "shp")
              /\ pc' = "awaitReadGeometryOnly"
              /\ UNCHANGED <<outcome, result>>
    /\ UNCHANGED <<clipVars, fileVars, viewVars, projVars, pathVars,
                   shpFetch, dbfFetch, shpBuf, dbfBuf>>

\* The function resumes after `await Promise.all([arrayBuffer, arrayBuffer])`
\* and calls shapefile.read(shpBuffer, dbfBuffer).
AfterBuffers ==
    /\ pc = "awaitBuffers"
    /\ AllSettled(shpBuf, dbfBuf)
    /\ IF shpBuf = "rejected" \/ dbfBuf = "rejected"
         THEN CaughtReturnsEmpty /\ UNCHANGED reads
         ELSE /\ reads' = Append(reads, "shp+dbf")
              /\ pc' = "awaitRead"
              /\ UNCHANGED <<outcome, result>>
    /\ UNCHANGED <<clipVars, fileVars, viewVars, projVars, pathVars,
                   shpFetch, dbfFetch, shpBuf, dbfBuf>>

\* shapefile.read(shpBuffer, dbfBuffer) settles.  Resolved: the .then
\* callback fills crowns and the function returns it.  Rejected: the awaited
\* promise throws inside the try block and the catch returns [].
ReadSettles ==
    /\ pc = "awaitRead"
    /\ IF readResolves(shpFile, TRUE, dbfFile)
         THEN /\ pc' = "done"
              /\ outcome' = "resolved"
              /\ result' = crownsWithAttributes(shpFile, dbfFile, bounds)
         ELSE CaughtReturnsEmpty
    /\ UNCHANGED <<clipVars, fileVars, viewVars, projVars, pathVars,
                   shpFetch, dbfFetch, shpBuf, dbfBuf, reads>>

\* shapefile.read(shpBuffer) of loadGeometryOnly settles.  loadCrownShapefile
\* has returned loadGeometryOnly's promise without awaiting it, so its own
\* promise settles the way that one does: a rejection is not thrown inside
\* the try block and the catch never runs.
ReadGeometryOnlySettles ==
    /\ pc = "awaitReadGeometryOnly"
    /\ pc' = "done"
    /\ IF readResolves(shpFile, FALSE, dbfFile)
         THEN /\ outcome' = "resolved"
              /\ result' = crownsGeometryOnly(shpFile, bounds)
         ELSE /\ outcome' = "rejected"
              /\ UNCHANGED result
    /\ UNCHANGED <<clipVars, fileVars, viewVars, projVars, pathVars,
                   shpFetch, dbfFetch, shpBuf, dbfBuf, reads>>

\* loadCrownData resumes once the promise of loadCrownShapefile has settled.
CrownDataSettles ==
    /\ viewPc = "awaitLoad"
    /\ outcome \in {"resolved", "rejected"}
    /\ crownPolygons' = loadCrownDataAssign(outcome, result, crownPolygons)
    /\ viewPc' = "done"
    /\ UNCHANGED <<clipVars, fileVars, loadVars, imageVars, projVars, pathVars>>

\* handleImageLoad, or onload of the preload: the background image has
\* loaded and reports its natural size.
ImageLoad ==
    /\ ~mainImageLoaded
    /\ \E size \in ImageSizes :
          /\ imageWidth' = size[1]
          /\ imageHeight' = size[2]
    /\ mainImageLoaded' = TRUE
    /\ UNCHANGED <<clipVars, fileVars, loadVars, imageBounds, crownPolygons,
                   viewPc, projVars, pathVars>>

Next ==
    \/ LoadCall
    \/ ShpFetchSettle
    \/ DbfFetchSettle
    \/ AfterFetches
    \/ ShpBufSettle
    \/ DbfBufSettle
    \/ AfterShpBuffer
    \/ AfterBuffers
    \/ ReadSettles
    \/ ReadGeometryOnlySettles
    \/ CrownDataSettles
    \/ ImageLoad

Spec == Init /\ [][Next]_vars

\* shapefile.read settles: the load does not wait for it forever.  The two
\* read actions are enabled exactly while pc is at their await and each of
\* their steps leaves it, so this is their weak fairness written on pc.
ReadFairness ==
    /\ []<>(pc # "awaitRead")
    /\ []<>(pc # "awaitReadGeometryOnly")

\* The event loop runs every continuation that is ready, and each fetch,
\* each arrayBuffer() and each shapefile.read settles.
Fairness ==
    /\ WF_vars(ShpFetchSettle) /\ WF_vars(DbfFetchSettle)
    /\ WF_vars(ShpBufSettle) /\ WF_vars(DbfBufSettle)
    /\ WF_vars(AfterFetches) /\ WF_vars(AfterShpBuffer) /\ WF_vars(AfterBuffers)
    /\ ReadFairness
    /\ WF_vars(CrownDataSettles)

\* The loads of files of at most one record, for the scenario bounds.
FairInit ==
    /\ Init
    /\ Len(shpFile.records) <= 1 /\ Len(dbfFile.records) <= 1
    /\ imageBounds = ScenarioImageBounds

SpecFair == FairInit /\ [][Next]_vars /\ Fairness

LoadDone == pc = "done"

ClipAgrees == ClipDone => output = clipPolygonToBounds(polygon, bounds)

\* ------------------------------------------------------------------------
\* The projector on its own: projectToPixels applied to given arguments
\* ------------------------------------------------------------------------
ProjectPoints == { Pt(1, 5), Pt(0, 4), Pt(2, 6), Pt(-1, 7) }

ProjectRings == UNION { [1..k -> ProjectPoints] : k \in 0..2 }

\* Image bounds with distinct latitudes and distinct longitudes.
ProjectBoundsSet ==
    { << <<Num(4), Num(0)>>, <<Num(6), Num(2)>> >>, WideImageBounds }

ProjectSizes == { <<Num(16), Num(8)>>, <<Num(5), Num(3)>>, <<0, 0>> }

ProjectInit ==
    /\ shpFile = NoResource /\ dbfFile = NoResource
    /\ LoadIdle
    /\ polygon = <<>> /\ output = <<>> /\ clipPc = "idle" /\ bounds = NoBounds
    /\ shapefilePath = <<>> /\ fetched = <<>>
    /\ crownPolygons = <<>> /\ viewPc = "mounted" /\ mainImageLoaded = TRUE
    /\ projCoordinates \in RecordsUpTo(ProjectRings, MaxFeatures)
    /\ imageBounds \in ProjectBoundsSet
    /\ \E size \in ProjectSizes : imageWidth = size[1] /\ imageHeight = size[2]
    /\ pixels = <<>>
    /\ projPc = "call"

\* projectToPixels(coordinates, imageBounds, imageWidth, imageHeight)
ProjectCall ==
    /\ projPc = "call"
    /\ pixels' = projectToPixels(projCoordinates, imageBounds, imageWidth,
                                 imageHeight)
    /\ projPc' = "done"
    /\ UNCHANGED <<clipVars, fileVars, loadVars, viewVars, projCoordinates,
                   pathVars>>

SpecProject == ProjectInit /\ [][ProjectCall]_vars

ProjectDone == projPc = "done"

\* ------------------------------------------------------------------------
\* The start of a load on its own: the paths handed to fetch
\* ------------------------------------------------------------------------
PathPieces ==
    { <<"/">>, <<"c">>, <<".">>, ShpExt, <<".", "S", "H", "P">>, DbfExt }

\* Paths of up to three pieces.
Paths ==
    { <<>> } \cup PathPieces
      \cup { p \o q : p \in PathPieces, q \in PathPieces }
      \cup { p \o q \o r : p \in PathPieces, q \in PathPieces, r \in PathPieces }

PathInit ==
    /\ shpFile = NoResource /\ dbfFile = NoResource
    /\ LoadIdle
    /\ polygon = <<>> /\ output = <<>> /\ clipPc = "idle" /\ bounds = NoBounds
    /\ imageBounds = ScenarioImageBounds /\ ViewIdle
    /\ ProjectIdle
    /\ shapefilePath \in Paths
    /\ fetched = <<>>

SpecPath == PathInit /\ [][LoadCall]_vars

LoadStarted == pc # "idle"

\* ------------------------------------------------------------------------
\* Exact plane geometry on input vertices (integer arithmetic, no rounding),
\* used to state what a ring encloses
\* ------------------------------------------------------------------------
Sgn(n) == IF n > 0 THEN 1 ELSE IF n < 0 THEN -1 ELSE 0

Min2(a, b) == IF a < b THEN a ELSE b
Max2(a, b) == IF a < b THEN b ELSE a

\* Twice the signed area of the triangle o, a, c.
Cross(o, a, c) ==
    (a[1] - o[1]) * (c[2] - o[2]) - (a[2] - o[2]) * (c[1] - o[1])

InBox(p, q, r) ==
    /\ Min2(p[1], q[1]) <= r[1] /\ r[1] <= Max2(p[1], q[1])
    /\ Min2(p[2], q[2]) <= r[2] /\ r[2] <= Max2(p[2], q[2])

\* The closed segments p1-p2 and q1-q2 have a point in common.
SegmentsMeet(p1, p2, q1, q2) ==
    LET d1 == Sgn(Cross(q1, q2, p1))
        d2 == Sgn(Cross(q1, q2, p2))
        d3 == Sgn(Cross(p1, p2, q1))
        d4 == Sgn(Cross(p1, p2, q2))
    IN  \/ d1 * d2 < 0 /\ d3 * d4 < 0
        \/ d1 = 0 /\ InBox(q1, q2, p1)
        \/ d2 = 0 /\ InBox(q1, q2, p2)
        \/ d3 = 0 /\ InBox(p1, p2, q1)
        \/ d4 = 0 /\ InBox(p1, p2, q2)

InBounds(b, pt) ==
    /\ b.minX <= pt[1] /\ pt[1] <= b.maxX
    /\ b.minY <= pt[2] /\ pt[2] <= b.maxY

Corners(b) ==
    << <<b.minX, b.minY>>, <<b.maxX, b.minY>>,
       <<b.maxX, b.maxY>>, <<b.minX, b.maxY>> >>

SegmentMeetsBounds(p, q, b) ==
    \/ InBounds(b, p)
    \/ InBounds(b, q)
    \/ \E k \in 1..4 :
          SegmentsMeet(p, q, Corners(b)[k], Corners(b)[(k % 4) + 1])

\* The vertex before ring[i], wrapping from the first to the last.
PrevVertex(ring, i) == ring[IF i = 1 THEN Len(ring) ELSE i - 1]

\* The signed number of times the edge a-c crosses the rightward ray from pt.
RayCrossing(pt, a, c) ==
    IF (a[2] > pt[2]) = (c[2] > pt[2]) THEN 0
    ELSE LET side == Sgn(Cross(a, c, pt)) * Sgn(c[2] - a[2])
         IN  IF side > 0 THEN Sgn(c[2] - a[2]) ELSE 0

RECURSIVE WindingFrom(_, _, _)
WindingFrom(pt, ring, i) ==
    IF i > Len(ring) THEN 0
    ELSE RayCrossing(pt, PrevVertex(ring, i), ring[i])
           + WindingFrom(pt, ring, i + 1)

\* How many times the ring winds around pt (pt not on the ring).
Winding(pt, ring) == WindingFrom(pt, ring, 1)

\* The ring lies fully outside the rectangle: no edge of it touches the
\* rectangle and the ring does not wind around it.
RingOutside(ring, b) ==
    /\ \A i \in 1..Len(ring) :
          ~SegmentMeetsBounds(PrevVertex(ring, i), ring[i], b)
    /\ Winding(Corners(b)[1], ring) = 0

\* The ring is a simple polygon: at least three distinct vertices, edges
\* that meet only at the vertex two consecutive ones share.
SimpleRing(ring) ==
    LET n == Len(ring)
        Overlap(a, v, c) ==
            Cross(a, v, c) = 0 /\ (InBox(a, v, c) \/ InBox(v, c, a))
    IN  /\ n >= 3
        /\ \A i, j \in 1..n : i < j => ring[i] # ring[j]
        /\ \A i, j \in 1..n :
             i < j =>
               IF j = i + 1
                 THEN ~Overlap(PrevVertex(ring, i), ring[i], ring[j])
               ELSE IF i = 1 /\ j = n
                 THEN ~Overlap(ring[n - 1], ring[n], ring[1])
               ELSE ~SegmentsMeet(PrevVertex(ring, i), ring[i],
                                  PrevVertex(ring, j), ring[j])

\* The spacing of representable values at the magnitude of the exact value z.
Ulp(z) == Spacing(Abs(z), 1)

\* ------------------------------------------------------------------------
\* What decoding gave, stated from the resources
\* ------------------------------------------------------------------------
\* shapefile.read was called and every buffer it was given could be parsed.
Decoded ==
    /\ reads # <<>>
    /\ shpFile.ok
    /\ reads = <<"shp+dbf">> => dbfFile.ok

IsPolygonRecord(geom) == geom.present /\ geom.type = "Polygon"

\* The rings of a geometry record left with 3 or more vertices by clipping,
\* in the record's ring order.
SurvivingRings(geom, b) ==
    SelectSeq([j \in 1..Len(geom.coordinates) |->
                  clipPolygonToBounds(geom.coordinates[j], b)],
              LAMBDA r : Len(r) >= 3)

Contributes(geom, b) ==
    /\ IsPolygonRecord(geom)
    /\ \E j \in 1..Len(geom.coordinates) :
          Len(clipPolygonToBounds(geom.coordinates[j], b)) >= 3

\* The positions of the contributing features, in file order.
ContributingIndices ==
    SelectSeq([i \in 1..Len(shpFile.records) |-> i],
              LAMBDA i : Contributes(shpFile.records[i], bounds))

\* The attribute record the decoder paired with feature i (empty when no
\* attribute buffer was decoded or it has no record at that position).
AttributeRecordOf(i) ==
    IF reads = <<"shp+dbf">> /\ i <= Len(dbfFile.records)
      THEN dbfFile.records[i].fields
      ELSE {}

\* ------------------------------------------------------------------------
\* Claims
\* ------------------------------------------------------------------------

\* C1: whatever the fetches and the decoding do, the promise returned by
\* loadCrownShapefile never rejects, and a geometry buffer that cannot be
\* parsed gives the empty sequence, in geometry-only mode too.
C1_NothingEscapes ==
    /\ outcome # "rejected"
    /\ LoadDone /\ reads # <<>> /\ ~shpFile.ok =>
         outcome = "resolved" /\ result = <<>>

\* C2: with the geometry resource fetched and decodable, a failure of the
\* attribute resource alone (its fetch rejects, or its buffer cannot be
\* parsed) still gives the geometry-only result: the clipped polygons, each
\* with an empty attribute mapping.
C2_AttributeFailureDowngrades ==
    LoadDone /\ shpFetch = "ok" /\ shpBuf # "rejected" /\ shpFile.ok
      /\ (\/ dbfFetch = "rejected"
          \/ shpBuf = "ok" /\ dbfBuf = "ok" /\ ~dbfFile.ok)
    => /\ outcome = "resolved"
       /\ Len(result) = Len(ContributingIndices)
       /\ \A k \in 1..Len(result) :
            /\ result[k].coordinates
                 = SurvivingRings(shpFile.records[ContributingIndices[k]], bounds)
            /\ result[k].properties = {}

\* C3: a (simple) ring lying fully outside the bounds rectangle, convex or
\* concave, is clipped to the empty ring, and so is the empty ring.
C3_OutsideRingClipsToEmpty ==
    ClipDone =>
      /\ SimpleRing(polygon) /\ RingOutside(polygon, bounds) => output = <<>>
      /\ polygon = <<>> => output = <<>>

\* C4 as stated: every vertex of the clipped ring satisfies
\* minX <= x <= maxX and minY <= y <= maxY exactly.
C4_ExactContainment ==
    ClipDone => \A i \in 1..Len(output) : InBounds(bounds, output[i])

\* C4 as amended: every vertex of the clipped ring satisfies
\* minY <= y <= maxY exactly and minX <= x <= maxX to within rounding: x is
\* at most two units in the last place of the window width maxX - minX
\* outside [minX, maxX].
C4_ContainmentWithinRounding ==
    ClipDone =>
      LET tol == 2 * Ulp(bounds.maxX - bounds.minX)
      IN  \A i \in 1..Len(output) :
            /\ bounds.minY <= output[i][2] /\ output[i][2] <= bounds.maxY
            /\ bounds.minX - tol <= output[i][1]
            /\ output[i][1] <= bounds.maxX + tol

\* C4 witness: a finished clip whose output has a vertex that a pass
\* inserted with a rounded x beyond maxX.
C4_Witness ==
    /\ ClipDone
    /\ \E i \in 1..Len(output) : output[i][1] > bounds.maxX

\* C5: every ring of every returned CrownPolygon has at least 3 vertices
\* and no returned CrownPolygon has an empty list of rings.
C5_RingValidity ==
    \A k \in 1..Len(result) :
        /\ Len(result[k].coordinates) > 0
        /\ \A j \in 1..Len(result[k].coordinates) :
              Len(result[k].coordinates[j]) >= 3

\* C5 witness: a finished load with attributes that returned a polygon which
\* lost some of its rings to the filter and kept two.
C5_Witness ==
    /\ LoadDone /\ reads = <<"shp+dbf">>
    /\ \E k \in 1..Len(result) :
          /\ Len(result[k].coordinates) = 2
          /\ \E i \in 1..Len(shpFile.records) :
                Len(shpFile.records[i].coordinates) > 2

\* C6: geometry fetch successful (its bytes read and decodable), attribute
\* fetch resolved with a failure status: the load returns one CrownPolygon
\* per polygon feature with a surviving ring, each with an empty properties
\* mapping.
C6_MissingAttributeFile ==
    LoadDone /\ shpFetch = "ok" /\ dbfFetch = "notOk" /\ shpBuf # "rejected"
      /\ shpFile.ok
    => /\ outcome = "resolved"
       /\ Len(result)
            = Cardinality({i \in 1..Len(shpFile.records) :
                              Contributes(shpFile.records[i], bounds)})
       /\ \A k \in 1..Len(result) : result[k].properties = {}

\* C6 witness: such a load has finished with a non-empty result although
\* the attribute file itself holds records.
C6_Witness ==
    /\ LoadDone /\ shpFetch = "ok" /\ dbfFetch = "notOk"
    /\ Len(result) = 2
    /\ dbfFile.ok /\ Len(dbfFile.records) > 0

\* C7: once the geometry fetch has resolved with a failure status the load
\* resolves with the empty sequence, never rejects and never calls the
\* decoder, whatever the attribute fetch does.
C7_GeometryFailureStatus ==
    shpFetch = "notOk" =>
      /\ reads = <<>>
      /\ outcome # "rejected"
      /\ LoadDone => outcome = "resolved" /\ result = <<>>

\* C7 witness: the load has finished after a geometry failure status with
\* the attribute fetch successful and both files decodable and non-empty.
C7_Witness ==
    /\ LoadDone /\ shpFetch = "notOk" /\ dbfFetch = "ok"
    /\ shpFile.ok /\ dbfFile.ok
    /\ \E i \in 1..Len(shpFile.records) :
          Contributes(shpFile.records[i], bounds)

\* C8: a ring whose vertices all lie inside or on the boundary of the
\* bounds rectangle is returned unchanged.
C8_InsideRingUnchanged ==
    ClipDone /\ (\A i \in 1..Len(polygon) : InBounds(bounds, polygon[i]))
      => output = polygon

\* C8 witness: the contained square of the scenario has been clipped
\* against {0,0,5,5} and has its 4 points.
C8_Witness ==
    /\ ClipDone
    /\ polygon = ContainedSquare /\ bounds = ScenarioBounds
    /\ Len(output) = 4

\* C9: the load output holds, in file order, exactly one CrownPolygon per
\* Polygon feature with a ring of 3 or more vertices after clipping; its
\* coordinates are the surviving clipped rings in ring order and its
\* properties the feature's attribute record.
C9_OneCrownPerSurvivingPolygon ==
    LoadDone /\ Decoded =>
      /\ Len(result) = Len(ContributingIndices)
      /\ \A k \in 1..Len(result) :
           /\ result[k].coordinates
                = SurvivingRings(shpFile.records[ContributingIndices[k]], bounds)
           /\ result[k].properties = AttributeRecordOf(ContributingIndices[k])

\* C9 witness: a load with attributes returned two polygons with different
\* attribute records, the first of which lost rings to clipping.
C9_Witness ==
    /\ LoadDone /\ Decoded /\ reads = <<"shp+dbf">>
    /\ Len(result) = 2
    /\ Len(result[1].coordinates) = 2
    /\ result[1].properties # result[2].properties
    /\ result[2].properties # {}

\* C10: features without geometry or of another type than Polygon add
\* nothing and raise nothing: the load resolves, every CrownPolygon has type
\* 'Polygon', and the Polygon features of the file are all processed.
C10_OtherFeaturesDropped ==
    LoadDone /\ Decoded =>
      /\ outcome = "resolved"
      /\ \A k \in 1..Len(result) : result[k].type = "Polygon"
      /\ Len(result) <= Cardinality({i \in 1..Len(shpFile.records) :
                                       IsPolygonRecord(shpFile.records[i])})
      /\ \A i \in 1..Len(shpFile.records) :
           Contributes(shpFile.records[i], bounds) =>
             \E k \in 1..Len(result) :
               result[k].coordinates = SurvivingRings(shpFile.records[i], bounds)

\* C10 witness: the file starts with a feature that is not a polygon and the
\* polygon after it is in the result.
C10_Witness ==
    /\ LoadDone /\ Decoded
    /\ Len(shpFile.records) = 2
    /\ ~IsPolygonRecord(shpFile.records[1])
    /\ Len(result) = 1

\* C11: projectToPixels returns as many rings as it was given, each with as
\* many points in the same order, and the point [lon, lat] at each position
\* maps to [((lon - minLon) / (maxLon - minLon)) * width,
\* ((maxLat - lat) / (maxLat - minLat)) * height]; the point half way
\* across the bounds in both directions ((lon 1, lat 5) in
\* [[4, 0], [6, 2]]) maps to half the width and half the height.
C11_ProjectionMapping ==
    ProjectDone =>
      LET minLat == imageBounds[1][1]
          minLon == imageBounds[1][2]
          maxLat == imageBounds[2][1]
          maxLon == imageBounds[2][2]
      IN  /\ Len(pixels) = Len(projCoordinates)
          /\ \A r \in 1..Len(projCoordinates) :
               /\ Len(pixels[r]) = Len(projCoordinates[r])
               /\ \A i \in 1..Len(projCoordinates[r]) :
                    LET lon == projCoordinates[r][i][1]
                        lat == projCoordinates[r][i][2]
                    IN  /\ pixels[r][i][1]
                             = FMul(FDiv(FSub(lon, minLon),
                                         FSub(maxLon, minLon)), imageWidth)
                        /\ pixels[r][i][2]
                             = FMul(FDiv(FSub(maxLat, lat),
                                         FSub(maxLat, minLat)), imageHeight)
          /\ /\ projCoordinates = << <<Pt(1, 5)>> >>
             /\ imageBounds = << <<Num(4), Num(0)>>, <<Num(6), Num(2)>> >>
             /\ imageWidth = Num(16) /\ imageHeight = Num(8)
             => pixels = << <<Pt(8, 4)>> >>

\* C11 witness: the point half way across the bounds has been projected
\* onto a 16 x 8 image, alone in its ring.
C11_Witness ==
    /\ ProjectDone
    /\ projCoordinates = << <<Pt(1, 5)>> >>
    /\ imageBounds = << <<Num(4), Num(0)>>, <<Num(6), Num(2)>> >>
    /\ imageWidth = Num(16) /\ imageHeight = Num(8)
    /\ pixels = << <<Pt(8, 4)>> >>

\* The sequence a, from position i on, is a subsequence of b from j on.
RECURSIVE IsSubSeqFrom(_, _, _, _)
IsSubSeqFrom(a, i, b, j) ==
    IF i > Len(a) THEN TRUE
    ELSE IF j > Len(b) THEN FALSE
    ELSE IF a[i] = b[j] THEN IsSubSeqFrom(a, i + 1, b, j + 1)
    ELSE IsSubSeqFrom(a, i, b, j + 1)

\* The input vertices within the bounds, in input order.
InsideVertices == SelectSeq(polygon, LAMBDA pt : InBounds(bounds, pt))

\* A point so far outside the bounds that no rounding of a computed
\* crossing reaches it: y outside [minY, maxY], or x more than two units in
\* the last place of the window width outside [minX, maxX].
FarOutside(b, pt) ==
    LET tol == 2 * Ulp(b.maxX - b.minX)
    IN  \/ pt[2] < b.minY \/ pt[2] > b.maxY
        \/ pt[1] < b.minX - tol \/ pt[1] > b.maxX + tol

\* C12 as stated: every input vertex within the bounds is a vertex of the
\* clipped ring, no input vertex outside the bounds is one, and the input
\* vertices within the bounds appear in it in their input order.
C12_InsideKeptOutsideAbsent ==
    ClipDone =>
      /\ \A i \in 1..Len(polygon) :
           InBounds(bounds, polygon[i])
             <=> \E j \in 1..Len(output) : output[j] = polygon[i]
      /\ IsSubSeqFrom(InsideVertices, 1, output, 1)

\* C12 as amended: every input vertex within the bounds is a vertex of the
\* clipped ring, in input order; an input vertex outside the bounds is not
\* retained, so that none lying outside by more than the rounding of a
\* computed crossing is a vertex of the clipped ring.
C12_InsideKeptFarOutsideAbsent ==
    ClipDone =>
      /\ \A i \in 1..Len(polygon) :
           /\ InBounds(bounds, polygon[i])
                => \E j \in 1..Len(output) : output[j] = polygon[i]
           /\ FarOutside(bounds, polygon[i])
                => \A j \in 1..Len(output) : output[j] # polygon[i]
      /\ IsSubSeqFrom(InsideVertices, 1, output, 1)

\* C12 witness: a ring with two different vertices within the bounds and
\* one far outside has been clipped to a ring with a computed crossing.
C12_Witness ==
    /\ ClipDone
    /\ Len(InsideVertices) >= 2 /\ InsideVertices[1] # InsideVertices[2]
    /\ \E i \in 1..Len(polygon) : FarOutside(bounds, polygon[i])
    /\ \E j \in 1..Len(output) :
          \A i \in 1..Len(polygon) : output[j] # polygon[i]

\* The order of the passes, and the boundary and coordinate of each.
PassOrder == <<"left", "right", "bottom", "top">>

PassesRun ==
    CASE clipPc = "left"   -> 0
      [] clipPc = "right"  -> 1
      [] clipPc = "bottom" -> 2
      [] clipPc = "top"    -> 3
      [] clipPc = "done"   -> 4

\* The ring after the first n passes, each applied to the ring before it.
RECURSIVE AfterPasses(_, _, _)
AfterPasses(ring, n, b) ==
    IF n = 0 THEN ring
    ELSE clipEdge(AfterPasses(ring, n - 1, b), PassOrder[n], b)

\* The half-plane of each pass: x >= minX, x <= maxX, y >= minY, y <= maxY.
InHalfPlane(side, b, pt) ==
    CASE side = "left"   -> pt[1] >= b.minX
      [] side = "right"  -> pt[1] <= b.maxX
      [] side = "bottom" -> pt[2] >= b.minY
      [] side = "top"    -> pt[2] <= b.maxY

\* The point of the segment p-q on the boundary of a pass by linear
\* interpolation: at x = bx, y = y1 + ((bx - x1) / (x2 - x1)) * (y2 - y1),
\* and the same with x and y exchanged at y = by.
Lerp(c, p, q, k, m) ==
    FAdd(p[m], FMul(FDiv(FSub(c, p[k]), FSub(q[k], p[k])), FSub(q[m], p[m])))

BoundaryPoint(side, b, p, q) ==
    CASE side = "left"   -> <<b.minX, Lerp(b.minX, p, q, 1, 2)>>
      [] side = "right"  -> <<b.maxX, Lerp(b.maxX, p, q, 1, 2)>>
      [] side = "bottom" -> <<Lerp(b.minY, p, q, 2, 1), b.minY>>
      [] side = "top"    -> <<Lerp(b.maxY, p, q, 2, 1), b.maxY>>

\* C13: the passes run in the order left, right, bottom, top, each on the
\* output of the one before; a pass puts the linear-interpolation point on
\* its boundary into its output wherever two consecutive vertices of its
\* input (the last and the first included) lie on different sides; and the
\* square [[-1,-1],[-1,1],[1,1],[1,-1]] clipped against {0,0,5,5} gives
\* [[0,0],[0,1],[1,1],[1,0]].
C13_PassOrderAndInterpolation ==
    clipPc # "idle" =>
      /\ PassesRun = 0 => output = polygon
      /\ PassesRun >= 1 =>
           \A side \in {PassOrder[PassesRun]},
              input \in {AfterPasses(polygon, PassesRun - 1, bounds)} :
             /\ output = clipEdge(input, side, bounds)
             /\ \A i \in 1..Len(input) :
                   InHalfPlane(side, bounds, PrevVertex(input, i))
                       # InHalfPlane(side, bounds, input[i])
                     => BoundaryPoint(side, bounds, PrevVertex(input, i),
                                      input[i])
                          \in {output[j] : j \in 1..Len(output)}
      /\ ClipDone /\ polygon = OverlappingSquare /\ bounds = ScenarioBounds
           => output = <<Pt(0, 0), Pt(0, 1), Pt(1, 1), Pt(1, 0)>>

\* C13 witness: the overlapping square has gone through the four passes and
\* come out as the four points of the scenario.
C13_Witness ==
    /\ ClipDone
    /\ polygon = OverlappingSquare /\ bounds = ScenarioBounds
    /\ output = <<Pt(0, 0), Pt(0, 1), Pt(1, 1), Pt(1, 0)>>

\* The string str ends with the string ext.
EndsWith(str, ext) ==
    /\ Len(str) >= Len(ext)
    /\ SubSeq(str, Len(str) - Len(ext) + 1, Len(str)) = ext

\* C14: for a geometry path with the extension .shp, the second path handed
\* to fetch is the geometry path with that extension, and nothing else,
\* replaced by .dbf, also when '.shp' occurs earlier in the path; it is never
\* the geometry path itself.
C14_AttributePathByExtension ==
    LoadStarted /\ EndsWith(shapefilePath, ShpExt) =>
      /\ fetched[1] = shapefilePath
      /\ fetched[2]
           = SubSeq(shapefilePath, 1, Len(shapefilePath) - Len(ShpExt)) \o DbfExt
      /\ fetched[2] # fetched[1]

FetchSettled(f) == f \in {"ok", "notOk", "rejected"}

\* C15: both fetches are issued before the function waits for either;
\* shapefile.read is not called before both fetches have settled; and it is
\* called with the attribute buffer only when both fetches resolved with a
\* success status and both buffers were read.
C15_FetchesJoinedBeforeDecoding ==
    /\ pc # "idle" =>
         /\ Len(fetched) = 2
         /\ shpFetch # "none" /\ dbfFetch # "none"
    /\ reads # <<>> => FetchSettled(shpFetch) /\ FetchSettled(dbfFetch)
    /\ (\E k \in 1..Len(reads) : reads[k] = "shp+dbf") =>
         /\ shpFetch = "ok" /\ dbfFetch = "ok"
         /\ shpBuf = "ok" /\ dbfBuf = "ok"
    /\ Len(reads) <= 1

\* C15 witness: decoding with attributes has started, after both fetches
\* resolved with a success status.
C15_Witness ==
    /\ pc = "awaitRead"
    /\ reads = <<"shp+dbf">>
    /\ shpFetch = "ok" /\ dbfFetch = "ok"

\* C16: crownPolygons is its initial value or the whole array a finished
\* load resolved with; it changes only in the step in which loadCrownData
\* resumes after a resolved load, and to that array.
C16_NoPartialCrowns ==
    /\ [](\/ crownPolygons = <<>>
          \/ /\ viewPc = "done" /\ LoadDone /\ outcome = "resolved"
             /\ crownPolygons = result)
    /\ [][crownPolygons' # crownPolygons =>
            /\ viewPc = "awaitLoad" /\ viewPc' = "done"
            /\ LoadDone /\ outcome = "resolved"
            /\ crownPolygons' = result]_vars

\* C16 witness: a finished load's two polygons have been assigned while the
\* image had loaded during the load.
C16_Witness ==
    /\ viewPc = "done"
    /\ Len(crownPolygons) = 2
    /\ mainImageLoaded

\* C17: with every fetch, buffer read and decoder call settling and every
\* continuation run, a load that was started settles.
C17_LoadSettles ==
    (outcome = "pending") ~> (outcome \in {"resolved", "rejected"})

\* C17 witness: the load has finished after the geometry fetch rejected
\* while the attribute fetch is still pending.
C17_Witness ==
    /\ LoadDone
    /\ shpFetch = "rejected" /\ dbfFetch = "pending"
    /\ outcome = "resolved"

\* The spacing of representable values at 1.
Eps == Ulp(Unit)

\* Every pixel of the outline paths.
CrownPixels ==
    LET paths == crownPaths(crownPolygons, imageBounds, imageWidth, imageHeight)
    IN  UNION { UNION { { paths[k][r][i] : i \in 1..Len(paths[k][r]) }
                        : r \in 1..Len(paths[k]) }
                : k \in 1..Len(paths) }

\* C18 as stated: every vertex of every loaded polygon projects to a pixel
\* with 0 <= px <= width and 0 <= py <= height.
C18_PixelsInsideImage ==
    \A px \in CrownPixels :
        /\ 0 <= px[1] /\ px[1] <= imageWidth
        /\ 0 <= px[2] /\ px[2] <= imageHeight

\* C18 as amended: every vertex of every loaded polygon projects to a pixel
\* with 0 <= py <= height, and with px in [0, width] to within rounding: at
\* most four units in the last place of 1 times the width outside it.
C18_PixelsInsideImageWithinRounding ==
    \A px \in CrownPixels :
        /\ 0 <= px[2] /\ px[2] <= imageHeight
        /\ -(4 * Eps * imageWidth) <= px[1] * Unit
        /\ px[1] * Unit <= imageWidth * Unit + 4 * Eps * imageWidth

\* C18 witness: polygons loaded for the wide image bounds are projected onto
\* the loaded image, one vertex to a pixel right of the image.
C18_Witness ==
    /\ viewPc = "done" /\ mainImageLoaded
    /\ imageBounds = WideImageBounds
    /\ \E px \in CrownPixels : px[1] > imageWidth

====
